---- MODULE Spec2Model ----
(***************************************************************************)
(* The 2048 page of src/pages/index.tsx: the move engine (planMove), the   *)
(* spawn policy (addRandomTile), the terminal detector (hasMoves) and the  *)
(* Home component that drives them from key presses, timers and resets.    *)
(*                                                                         *)
(* A tile is a record [id, value, row, col].  The presentation flags       *)
(* merged / isNew / moving of the source are not modelled: no guard and no *)
(* computation of the engine or of the component's control flow reads them *)
(* (they feed the CSS classes and the popup only).                         *)
(***************************************************************************)
EXTENDS Integers, Sequences, FiniteSets, TLC

\* src/pages/index.tsx:25
SIZE == 4

Directions == {"left", "right", "up", "down"}

Lines == 0 .. (SIZE - 1)

Abs(x) == IF x < 0 THEN -x ELSE x

Max2(a, b) == IF a > b THEN a ELSE b

MaxOfSet(S) == CHOOSE x \in S : \A y \in S : y <= x

MinOfSet(S) == CHOOSE x \in S : \A y \in S : x <= y

Tile(id, value, row, col) == [id |-> id, value |-> value, row |-> row, col |-> col]

(***************************************************************************)
(* Grid projection and empty-cell scan                                     *)
(***************************************************************************)

\* gridFromTiles: a later tile of the array overwrites an earlier one in the same cell.
gridFromTiles(ts) ==
    [r \in Lines |-> [c \in Lines |->
        LET at == {i \in DOMAIN ts : ts[i].row = r /\ ts[i].col = c}
        IN  IF at = {} THEN 0 ELSE ts[MaxOfSet(at)].value]]

RECURSIVE SortedCells(_)
SortedCells(S) ==
    IF S = {} THEN <<>>
    ELSE LET k == MinOfSet(S)
         IN  <<[r |-> k \div SIZE, c |-> k % SIZE]>> \o SortedCells(S \ {k})

\* A faulty variant of getEmptyCells: the test of line 51 inverted (the occupied cells).
getEmptyCellsInverted(grid) ==
    SortedCells({k \in 0 .. (SIZE * SIZE - 1) : grid[k \div SIZE][k % SIZE] # 0})

\* getEmptyCells: the empty cells in row-major order.
getEmptyCells(grid) ==
    SortedCells({k \in 0 .. (SIZE * SIZE - 1) : grid[k \div SIZE][k % SIZE] = 0})

(***************************************************************************)
(* Spawn policy.  The Math.random() of the cell choice is one of the       *)
(* points rnd/RandomScale, rnd in RandomDraws.  The value draw has two     *)
(* outcomes, 2 and 4, both enumerated.                                     *)
(***************************************************************************)

RandomScale == 4

RandomDraws == 0 .. (RandomScale - 1)

\* The component's runs draw the middle point only; direct calls draw them all.
GameDraws == {RandomScale \div 2}

SpawnValues == {2, 4}

\* Math.floor(Math.random() * empty.length), 0-based.
PickIndex(rnd, len) == (rnd * len) \div RandomScale

\* addRandomTile(tiles, createId): [tiles, idRef] after the call.
addRandomTile(ts, idRef, rnd, value) ==
    LET empty == getEmptyCells(gridFromTiles(ts))
    IN  IF Len(empty) = 0
        THEN [tiles |-> ts, idRef |-> idRef]
        ELSE LET pick == empty[PickIndex(rnd, Len(empty)) + 1]
             IN  [tiles |-> Append(ts, Tile(idRef, value, pick.r, pick.c)),
                  idRef |-> idRef + 1]

(***************************************************************************)
(* Terminal detector                                                       *)
(***************************************************************************)

\* A faulty variant of hasMoves: the test for an empty cell (line 84) left out.
hasMovesNoEmpty(grid) ==
    \E r \in Lines, c \in Lines :
        \/ r < SIZE - 1 /\ grid[r + 1][c] = grid[r][c]
        \/ c < SIZE - 1 /\ grid[r][c + 1] = grid[r][c]

\* A faulty variant of hasMoves: the test of the neighbour below (line 88) left out.
hasMovesRightOnly(grid) ==
    \/ Len(getEmptyCells(grid)) > 0
    \/ \E r \in Lines, c \in Lines : c < SIZE - 1 /\ grid[r][c + 1] = grid[r][c]

hasMoves(grid) ==
    \/ Len(getEmptyCells(grid)) > 0
    \/ \E r \in Lines, c \in Lines :
          \/ r < SIZE - 1 /\ grid[r + 1][c] = grid[r][c]
          \/ c < SIZE - 1 /\ grid[r][c + 1] = grid[r][c]

(***************************************************************************)
(* Move engine                                                             *)
(***************************************************************************)

isHorizontal(direction) == direction \in {"left", "right"}

forward(direction) == direction \in {"left", "up"}

\* A faulty variant of Compare: the tiles of a line ordered by id, not by position.
CompareById(a, b, direction) == IF forward(direction) THEN a.id - b.id ELSE b.id - a.id

\* The comparator of the sort: negative when a goes before b.
Compare(a, b, direction) ==
    IF forward(direction)
    THEN IF isHorizontal(direction) THEN a.col - b.col ELSE a.row - b.row
    ELSE IF isHorizontal(direction) THEN b.col - a.col ELSE b.row - a.row

\* Array.prototype.sort is stable: t goes after every element not after it.
InsertSorted(sorted, t, direction) ==
    LET n == Cardinality({i \in DOMAIN sorted : Compare(sorted[i], t, direction) <= 0})
    IN  SubSeq(sorted, 1, n) \o <<t>> \o SubSeq(sorted, n + 1, Len(sorted))

RECURSIVE SortLine(_, _, _)
SortLine(ts, direction, acc) ==
    IF ts = <<>> THEN acc
    ELSE SortLine(Tail(ts), direction, InsertSorted(acc, Head(ts), direction))

inLine(tile, direction, line) ==
    IF isHorizontal(direction) THEN tile.row = line ELSE tile.col = line

tilesInLine(ts, direction, line) ==
    SortLine(SelectSeq(ts, LAMBDA t : inLine(t, direction, line)), direction, <<>>)

\* A faulty variant of canAbsorb: the merged flag not tested, so a merged group merges again.
canAbsorbChain(last, tile) == last.value = tile.value

\* The merge test of the walk (line 126).
canAbsorb(last, tile) == ~last.merged /\ last.value = tile.value

\* A faulty variant of groupStep: the else of line 132 left out, so a tile that was
\* merged into the last group also opens a group of its own.
groupStepNoElse(st, tile) ==
    LET n == Len(st.groups)
        own == [tiles |-> <<tile>>, value |-> tile.value, merged |-> FALSE]
    IN  IF n > 0 /\ canAbsorb(st.groups[n], tile)
        THEN LET last == st.groups[n]
                 grown == [tiles |-> Append(last.tiles, tile),
                           value |-> last.value * 2,
                           merged |-> TRUE]
             IN  [groups |-> Append([st.groups EXCEPT ![n] = grown], own),
                  score |-> st.score + grown.value,
                  moved |-> TRUE]
        ELSE [groups |-> Append(st.groups, own),
              score |-> st.score,
              moved |-> st.moved]

\* A faulty variant of groupStep: the score raised by the absorbed tile's value (line 130).
groupStepScoresTile(st, tile) ==
    LET n == Len(st.groups)
    IN  IF n > 0 /\ canAbsorb(st.groups[n], tile)
        THEN LET last == st.groups[n]
                 grown == [tiles |-> Append(last.tiles, tile),
                           value |-> last.value * 2,
                           merged |-> TRUE]
             IN  [groups |-> [st.groups EXCEPT ![n] = grown],
                  score |-> st.score + tile.value,
                  moved |-> TRUE]
        ELSE [groups |-> Append(st.groups,
                                [tiles |-> <<tile>>, value |-> tile.value, merged |-> FALSE]),
              score |-> st.score,
              moved |-> st.moved]

\* A faulty variant of groupStep: the group's value raised by 2, not doubled (line 128).
groupStepAddsTwo(st, tile) ==
    LET n == Len(st.groups)
    IN  IF n > 0 /\ canAbsorb(st.groups[n], tile)
        THEN LET last == st.groups[n]
                 grown == [tiles |-> Append(last.tiles, tile),
                           value |-> last.value + 2,
                           merged |-> TRUE]
             IN  [groups |-> [st.groups EXCEPT ![n] = grown],
                  score |-> st.score + grown.value,
                  moved |-> TRUE]
        ELSE [groups |-> Append(st.groups,
                                [tiles |-> <<tile>>, value |-> tile.value, merged |-> FALSE]),
              score |-> st.score,
              moved |-> st.moved]

\* One iteration of the walk (lines 124-135) on st = [groups, score, moved].
groupStep(st, tile) ==
    LET n == Len(st.groups)
    IN  IF n > 0 /\ canAbsorb(st.groups[n], tile)
        THEN LET last == st.groups[n]
                 grown == [tiles |-> Append(last.tiles, tile),
                           value |-> last.value * 2,
                           merged |-> TRUE]
             IN  [groups |-> [st.groups EXCEPT ![n] = grown],
                  score |-> st.score + grown.value,
                  moved |-> TRUE]
        ELSE [groups |-> Append(st.groups,
                                [tiles |-> <<tile>>, value |-> tile.value, merged |-> FALSE]),
              score |-> st.score,
              moved |-> st.moved]

RECURSIVE walkLine(_, _)
walkLine(line, st) ==
    IF line = <<>> THEN st ELSE walkLine(Tail(line), groupStep(st, Head(line)))

\* A faulty variant of slotOf: the group index not used, every group lands at the wall.
slotOfWall(direction, index) == IF forward(direction) THEN 0 ELSE SIZE - 1

\* A faulty variant of slotOf: the two branches exchanged, the slots counted from the far wall.
slotOfFarWall(direction, index) == IF forward(direction) THEN SIZE - 1 - index ELSE index

\* The slot of the index-th group (0-based) along the line (line 138).
slotOf(direction, index) == IF forward(direction) THEN index ELSE SIZE - 1 - index

\* Map.set
MapSet(m, k, v) == [x \in (DOMAIN m) \cup {k} |-> IF x = k THEN v ELSE m[x]]

EmptyMap == [x \in {} |-> 0]

RECURSIVE placeTilesNoMoved(_, _, _, _)
\* A faulty variant of placeTiles: line 146 left out, a slide alone does not set moved.
placeTilesNoMoved(gts, row, col, acc) ==
    IF gts = <<>> THEN acc
    ELSE LET tile == Head(gts)
             distance == Abs(tile.row - row) + Abs(tile.col - col)
         IN  placeTilesNoMoved(Tail(gts), row, col,
                 [acc EXCEPT !.targets = MapSet(@, tile.id, [row |-> row, col |-> col]),
                             !.maxDistance = Max2(@, distance)])

RECURSIVE placeTilesAlwaysMoved(_, _, _, _)
\* A faulty variant of placeTiles: the test of line 146 written distance >= 0.
placeTilesAlwaysMoved(gts, row, col, acc) ==
    IF gts = <<>> THEN acc
    ELSE LET tile == Head(gts)
             distance == Abs(tile.row - row) + Abs(tile.col - col)
         IN  placeTilesAlwaysMoved(Tail(gts), row, col,
                 [acc EXCEPT !.targets = MapSet(@, tile.id, [row |-> row, col |-> col]),
                             !.maxDistance = Max2(@, distance),
                             !.moved = @ \/ distance >= 0])

RECURSIVE placeTiles(_, _, _, _)
\* The inner loop over group.tiles (lines 142-147) on acc = the engine's locals.
placeTiles(gts, row, col, acc) ==
    IF gts = <<>> THEN acc
    ELSE LET tile == Head(gts)
             distance == Abs(tile.row - row) + Abs(tile.col - col)
         IN  placeTiles(Tail(gts), row, col,
                 [acc EXCEPT !.targets = MapSet(@, tile.id, [row |-> row, col |-> col]),
                             !.maxDistance = Max2(@, distance),
                             !.moved = @ \/ distance > 0])

\* A faulty variant of finalTileOf: the merged tile keeps the value of the tiles it replaces.
finalTileOfStale(group, row, col, idRef) ==
    IF group.merged
    THEN Tile(idRef, group.tiles[1].value, row, col)
    ELSE Tile(group.tiles[1].id, group.tiles[1].value, row, col)

\* The successor tile of a group (lines 149-167).
finalTileOf(group, row, col, idRef) ==
    IF group.merged
    THEN Tile(idRef, group.value, row, col)
    ELSE Tile(group.tiles[1].id, group.tiles[1].value, row, col)

RECURSIVE placeGroups(_, _, _, _, _)
\* groups.forEach (lines 137-168), from group number k (1-based).
placeGroups(groups, k, direction, line, acc) ==
    IF k > Len(groups) THEN acc
    ELSE LET group == groups[k]
             position == slotOf(direction, k - 1)
             row == IF isHorizontal(direction) THEN line ELSE position
             col == IF isHorizontal(direction) THEN position ELSE line
             placed == placeTiles(group.tiles, row, col, acc)
             next == [placed EXCEPT
                        !.finalTiles = Append(@, finalTileOf(group, row, col, placed.idRef)),
                        !.idRef = IF group.merged THEN @ + 1 ELSE @]
         IN  placeGroups(groups, k + 1, direction, line, next)

RECURSIVE planLines(_, _, _, _)
\* The loop over the lines (lines 109-169), from line number line.
planLines(ts, direction, line, acc) ==
    IF line >= SIZE THEN acc
    ELSE LET walked == walkLine(tilesInLine(ts, direction, line),
                                [groups |-> <<>>, score |-> acc.score, moved |-> acc.moved])
             start == [acc EXCEPT !.score = walked.score, !.moved = walked.moved]
         IN  planLines(ts, direction, line + 1,
                       placeGroups(walked.groups, 1, direction, line, start))

NoPlan == [targets |-> EmptyMap, finalTiles |-> <<>>, score |-> 0, steps |-> 0,
           direction |-> "none"]

\* planMove(tiles, direction, createId): [plan, moved, idRef]; plan = NoPlan is null.
planMove(ts, direction, idRef) ==
    LET done == planLines(ts, direction, 0,
                          [score |-> 0, moved |-> FALSE, maxDistance |-> 0,
                           targets |-> EmptyMap, finalTiles |-> <<>>, idRef |-> idRef])
    IN  IF ~done.moved
        THEN [plan |-> NoPlan, moved |-> FALSE, idRef |-> done.idRef]
        ELSE [plan |-> [targets |-> done.targets,
                        finalTiles |-> done.finalTiles,
                        score |-> done.score,
                        steps |-> Max2(done.maxDistance, 1),
                        direction |-> direction],
              moved |-> TRUE,
              idRef |-> done.idRef]

(***************************************************************************)
(* The Home component.  A handler, the render it causes and the effects of *)
(* that render are one step.  The timers are the ones of stepTimeoutRef:   *)
(* at most one is pending at a time, each setTimeout being issued either   *)
(* after clearTimeout of the previous one (handleKey) or from the callback *)
(* of the previous one (runStep).                                          *)
(***************************************************************************)

VARIABLES
    tiles,        \* useState tiles
    score,        \* useState score
    gameOver,     \* useState gameOver
    hydrated,     \* useState hydrated
    isAnimating,  \* useState isAnimating
    idRef,        \* idRef.current
    moveRef,      \* moveRef.current (NoPlan is null)
    stepTimeout,  \* the pending timer of stepTimeoutRef: [kind, active]
    event,        \* history: the last operation and its input
    accepted,     \* history: direction keys that produced a plan
    spawned,      \* history: addRandomTile calls made by the final callback
    resets,       \* history: handleRestart and triggerCheat calls
    result        \* the value returned by the last direct call of a pure function

vars == <<tiles, score, gameOver, hydrated, isAnimating, idRef, moveRef, stepTimeout,
          event, accepted, spawned, resets, result>>

progVars == <<tiles, score, gameOver, hydrated, isAnimating, idRef, moveRef, stepTimeout>>

\* Bounds of the exploration: accepted keys, and resets.
MaxTurns == 2

MaxResets == 1

NoTimer == [kind |-> "none", active |-> NoPlan]

NoResult == [op |-> "none"]

canMove(ts) == hasMoves(gridFromTiles(ts))

\* A faulty variant of gameOverEffect: the effect never sets the flag.
gameOverEffectOff(oldTiles, newTiles, flag) == flag

\* useEffect on [canMove] (lines 214-216): runs when canMove changed in this render.
gameOverEffect(oldTiles, newTiles, flag) ==
    IF canMove(oldTiles) # canMove(newTiles) /\ ~canMove(newTiles) THEN TRUE ELSE flag

Init ==
    /\ tiles = <<>>
    /\ score = 0
    /\ gameOver = FALSE
    /\ hydrated = FALSE
    /\ isAnimating = FALSE
    /\ idRef = 1
    /\ moveRef = NoPlan
    /\ stepTimeout = NoTimer
    /\ event = "none"
    /\ accepted = 0
    /\ spawned = 0
    /\ resets = 0
    /\ result = NoResult

\* Two spawns on the empty board (lines 220-221 and 401-402).
twoTiles(id, rnd1, v1, rnd2, v2) ==
    LET first == addRandomTile(<<>>, id, rnd1, v1)
    IN  addRandomTile(first.tiles, first.idRef, rnd2, v2)

\* The mount effect (lines 218-224).
Hydrate(rnd1, v1, rnd2, v2) ==
    /\ ~hydrated
    /\ LET next == twoTiles(idRef, rnd1, v1, rnd2, v2)
       IN  /\ tiles' = next.tiles
           /\ idRef' = next.idRef
           /\ gameOver' = gameOverEffect(tiles, next.tiles, gameOver)
    /\ hydrated' = TRUE
    /\ event' = "hydrate"
    /\ UNCHANGED <<score, isAnimating, moveRef, stepTimeout, accepted, spawned, resets, result>>

\* A faulty variant of keyIgnored: isAnimating not tested.
keyIgnoredWhenOver(over, animating) == over

\* A faulty variant of keyAccepted: the early return of line 338 left out.
keyAcceptedAlways(r) == TRUE

\* The early return of handleKey (line 326).
keyIgnored(over, animating) == over \/ animating

\* What handleKey does with planMove's answer (line 338).
keyAccepted(r) == r.moved /\ r.plan # NoPlan

\* The keydown listener for a direction key (lines 325-351).
HandleKey(direction) ==
    /\ hydrated
    /\ IF keyIgnored(gameOver, isAnimating)
       THEN /\ event' = "keyIgnored"
            /\ UNCHANGED <<progVars, accepted>>
       ELSE LET r == planMove(tiles, direction, idRef)
            IN  /\ idRef' = r.idRef
                /\ IF ~keyAccepted(r)
                   THEN /\ event' = "keyRejected"
                        /\ UNCHANGED <<tiles, score, gameOver, hydrated, isAnimating,
                                       moveRef, stepTimeout, accepted>>
                   ELSE /\ accepted < MaxTurns
                        /\ moveRef' = r.plan
                        /\ isAnimating' = TRUE
                        /\ stepTimeout' = [kind |-> "runStep", active |-> NoPlan]
                        /\ accepted' = accepted + 1
                        /\ event' = "keyAccepted"
                        /\ UNCHANGED <<tiles, score, gameOver, hydrated>>
    /\ UNCHANGED <<spawned, resets, result>>

\* One cell toward the target (lines 268-278).
stepTile(tile, active) ==
    IF tile.id \notin DOMAIN active.targets THEN tile
    ELSE LET target == active.targets[tile.id]
             col1 == IF active.direction = "left" /\ tile.col > target.col THEN tile.col - 1
                     ELSE tile.col
             col2 == IF active.direction = "right" /\ col1 < target.col THEN col1 + 1
                     ELSE col1
             row1 == IF active.direction = "up" /\ tile.row > target.row THEN tile.row - 1
                     ELSE tile.row
             row2 == IF active.direction = "down" /\ row1 < target.row THEN row1 + 1
                     ELSE row1
         IN  [tile EXCEPT !.row = row2, !.col = col2]

stepTiles(ts, active) == [i \in DOMAIN ts |-> stepTile(ts[i], active)]

\* A faulty variant of RunStep: the final callback of line 287 is not scheduled.
RunStepNoFinal ==
    /\ stepTimeout.kind = "runStep"
    /\ IF moveRef = NoPlan
       THEN /\ stepTimeout' = NoTimer
            /\ event' = "runStepStale"
            /\ UNCHANGED <<tiles, moveRef, gameOver>>
       ELSE LET active == [moveRef EXCEPT !.steps = @ - 1]
                next == stepTiles(tiles, moveRef)
            IN  /\ tiles' = next
                /\ gameOver' = gameOverEffect(tiles, next, gameOver)
                /\ moveRef' = active
                /\ stepTimeout' = IF active.steps > 0
                                  THEN [kind |-> "runStep", active |-> NoPlan]
                                  ELSE NoTimer
                /\ event' = "runStep"
    /\ UNCHANGED <<score, hydrated, isAnimating, idRef, accepted, spawned, resets, result>>

\* The timer callback runStep (lines 263-322, up to the scheduling of the next timer).
RunStep ==
    /\ stepTimeout.kind = "runStep"
    /\ IF moveRef = NoPlan
       THEN /\ stepTimeout' = NoTimer
            /\ event' = "runStepStale"
            /\ UNCHANGED <<tiles, moveRef, gameOver>>
       ELSE LET active == [moveRef EXCEPT !.steps = @ - 1]
                next == stepTiles(tiles, moveRef)
            IN  /\ tiles' = next
                /\ gameOver' = gameOverEffect(tiles, next, gameOver)
                /\ moveRef' = active
                /\ stepTimeout' = IF active.steps > 0
                                  THEN [kind |-> "runStep", active |-> NoPlan]
                                  ELSE [kind |-> "final", active |-> active]
                /\ event' = "runStep"
    /\ UNCHANGED <<score, hydrated, isAnimating, idRef, accepted, spawned, resets, result>>

\* A faulty variant of FinalStep: the callback stays scheduled (an interval, not a timeout).
FinalStepRepeats(rnd, value) ==
    /\ stepTimeout.kind = "final"
    /\ LET active == stepTimeout.active
           withTile == addRandomTile(active.finalTiles, idRef, rnd, value)
       IN  /\ tiles' = withTile.tiles
           /\ idRef' = withTile.idRef
           /\ score' = score + active.score
           /\ gameOver' = gameOverEffect(tiles, withTile.tiles, gameOver)
           /\ event' = "final"
    /\ isAnimating' = FALSE
    /\ moveRef' = NoPlan
    /\ spawned' = spawned + 1
    /\ UNCHANGED <<hydrated, accepted, resets, result, stepTimeout>>

\* The callback scheduled at line 287: spawn, score, end of the turn (lines 316-320).
FinalStep(rnd, value) ==
    /\ stepTimeout.kind = "final"
    /\ LET active == stepTimeout.active
           withTile == addRandomTile(active.finalTiles, idRef, rnd, value)
       IN  /\ tiles' = withTile.tiles
           /\ idRef' = withTile.idRef
           /\ score' = score + active.score
           /\ gameOver' = gameOverEffect(tiles, withTile.tiles, gameOver)
           /\ event' = "final"
    /\ isAnimating' = FALSE
    /\ moveRef' = NoPlan
    /\ stepTimeout' = NoTimer
    /\ spawned' = spawned + 1
    /\ UNCHANGED <<hydrated, accepted, resets, result>>

\* The board of the cheat (lines 373-376).
cheatTiles(id) == <<Tile(id, 1024, 0, 0), Tile(id + 1, 1024, 0, 1)>>

\* triggerCheat (lines 372-382): the pending timer is not cleared.
TriggerCheat ==
    /\ hydrated
    /\ resets < MaxResets
    /\ tiles' = cheatTiles(idRef)
    /\ idRef' = idRef + 2
    /\ score' = 0
    /\ gameOver' = gameOverEffect(tiles, cheatTiles(idRef), FALSE)
    /\ isAnimating' = FALSE
    /\ moveRef' = NoPlan
    /\ resets' = resets + 1
    /\ event' = "cheat"
    /\ UNCHANGED <<hydrated, stepTimeout, accepted, spawned, result>>

\* handleRestart (lines 400-428).
HandleRestart(rnd1, v1, rnd2, v2) ==
    /\ hydrated
    /\ resets < MaxResets
    /\ LET next == twoTiles(idRef, rnd1, v1, rnd2, v2)
       IN  /\ tiles' = next.tiles
           /\ idRef' = next.idRef
           /\ gameOver' = gameOverEffect(tiles, next.tiles, FALSE)
    /\ score' = 0
    /\ isAnimating' = FALSE
    /\ moveRef' = NoPlan
    /\ stepTimeout' = NoTimer
    /\ resets' = resets + 1
    /\ event' = "restart"
    /\ UNCHANGED <<hydrated, accepted, spawned, result>>

Next ==
    \/ \E rnd1, rnd2 \in GameDraws, v1, v2 \in SpawnValues : Hydrate(rnd1, v1, rnd2, v2)
    \/ \E direction \in Directions : HandleKey(direction)
    \/ RunStep
    \/ \E rnd \in GameDraws, value \in SpawnValues : FinalStep(rnd, value)
    \/ TriggerCheat
    \/ \E rnd1, rnd2 \in GameDraws, v1, v2 \in SpawnValues : HandleRestart(rnd1, v1, rnd2, v2)

Spec == Init /\ [][Next]_vars

\* What the callback runStep does to the plan and to the timer: RunStep restricted to
\* moveRef and stepTimeout.  It is enabled exactly when RunStep is, and every RunStep
\* step is one of its steps.
RunStepTimer ==
    /\ stepTimeout.kind = "runStep"
    /\ IF moveRef = NoPlan
       THEN moveRef' = moveRef /\ stepTimeout' = NoTimer
       ELSE /\ moveRef' = [moveRef EXCEPT !.steps = @ - 1]
            /\ stepTimeout' = IF moveRef'.steps > 0
                              THEN [kind |-> "runStep", active |-> NoPlan]
                              ELSE [kind |-> "final", active |-> moveRef']

\* What the final callback does to the timer and to the count of spawns: FinalStep
\* restricted to stepTimeout and spawned.
FinalStepTimer ==
    /\ stepTimeout.kind = "final"
    /\ stepTimeout' = NoTimer
    /\ spawned' = spawned + 1

\* A timer set by window.setTimeout (lines 283, 287, 350) fires unless it is cleared:
\* weak fairness of the two callbacks, stated on the variables above.
TimersFire ==
    /\ WF_<<moveRef, stepTimeout>>(RunStepTimer)
    /\ WF_<<stepTimeout, spawned>>(FinalStepTimer)

SpecFair == Spec /\ TimersFire

(***************************************************************************)
(* Late positions: the same component resumed from boards late in a game,  *)
(* one empty cell or none left, with the score such a board carries when   *)
(* every spawn was a 2.                                                    *)
(***************************************************************************)

RECURSIVE tilesOfCells(_, _, _)
\* The tiles of a grid in row-major order, ids from id on.
tilesOfCells(grid, k, id) ==
    IF k >= SIZE * SIZE THEN <<>>
    ELSE LET v == grid[(k \div SIZE) + 1][(k % SIZE) + 1]
         IN  IF v = 0 THEN tilesOfCells(grid, k + 1, id)
             ELSE <<Tile(id, v, k \div SIZE, k % SIZE)>> \o tilesOfCells(grid, k + 1, id + 1)

tilesOfGrid(grid) == tilesOfCells(grid, 0, 1)

RECURSIVE mergeScore(_)
\* The score earned in building one tile of value v out of 2s.
mergeScore(v) == IF v <= 2 THEN 0 ELSE v + 2 * mergeScore(v \div 2)

RECURSIVE boardScore(_)
boardScore(ts) == IF ts = <<>> THEN 0 ELSE mergeScore(Head(ts).value) + boardScore(Tail(ts))

LateBoards ==
    { << <<4, 8, 4, 8>>, <<8, 4, 8, 4>>, <<4, 8, 4, 8>>, <<16, 8, 4, 0>> >>,
      << <<2, 4, 2, 4>>, <<4, 2, 4, 2>>, <<2, 4, 2, 4>>, <<4, 2, 4, 4>> >> }

InitLate ==
    /\ \E grid \in LateBoards :
          /\ tiles = tilesOfGrid(grid)
          /\ idRef = Len(tilesOfGrid(grid)) + 1
          /\ score = boardScore(tilesOfGrid(grid))
    /\ gameOver = FALSE
    /\ hydrated = TRUE
    /\ isAnimating = FALSE
    /\ moveRef = NoPlan
    /\ stepTimeout = NoTimer
    /\ event = "none"
    /\ accepted = 0
    /\ spawned = 0
    /\ resets = 0
    /\ result = NoResult

NextLate ==
    \/ \E direction \in Directions : HandleKey(direction)
    \/ RunStep
    \/ \E rnd \in GameDraws, value \in SpawnValues : FinalStep(rnd, value)
    \/ TriggerCheat
    \/ \E rnd1, rnd2 \in GameDraws, v1, v2 \in SpawnValues : HandleRestart(rnd1, v1, rnd2, v2)

SpecLate == InitLate /\ [][NextLate]_vars

(***************************************************************************)
(* Scenario positions: the same component on the two-tile boards           *)
(* <<2,2,0,0>> and <<2,0,0,2>> in row 0, as the mount effect leaves them   *)
(* when the two spawns are 2s in those cells.                              *)
(***************************************************************************)

EmptyRow == <<0, 0, 0, 0>>

ScenarioBoards ==
    { << <<2, 2, 0, 0>>, EmptyRow, EmptyRow, EmptyRow >>,
      << <<2, 0, 0, 2>>, EmptyRow, EmptyRow, EmptyRow >> }

InitScenario ==
    /\ \E grid \in ScenarioBoards :
          /\ tiles = tilesOfGrid(grid)
          /\ idRef = Len(tilesOfGrid(grid)) + 1
    /\ score = 0
    /\ gameOver = FALSE
    /\ hydrated = TRUE
    /\ isAnimating = FALSE
    /\ moveRef = NoPlan
    /\ stepTimeout = NoTimer
    /\ event = "none"
    /\ accepted = 0
    /\ spawned = 0
    /\ resets = 0
    /\ result = NoResult

SpecScenario == InitScenario /\ [][NextLate]_vars

(***************************************************************************)
(* The pure functions called directly: the board is drawn from the boards  *)
(* whose rows are RowPatterns, and each call leaves its answer in result.  *)
(***************************************************************************)

RowPatterns ==
    { <<0, 0, 0, 0>>, <<2, 2, 2, 2>>, <<2, 0, 2, 2>>, <<2, 4, 2, 4>>,
      <<4, 2, 4, 2>>, <<2, 2, 4, 8>>, <<0, 4, 0, 0>> }

Boards == [1 .. SIZE -> RowPatterns]

InitPlan ==
    /\ \E grid \in Boards :
          /\ tiles = tilesOfGrid(grid)
          /\ idRef = Len(tilesOfGrid(grid)) + 1
    /\ score = 0
    /\ gameOver = FALSE
    /\ hydrated = TRUE
    /\ isAnimating = FALSE
    /\ moveRef = NoPlan
    /\ stepTimeout = NoTimer
    /\ event = "none"
    /\ accepted = 0
    /\ spawned = 0
    /\ resets = 0
    /\ result = NoResult

PlanMoveCall(direction) ==
    /\ result = NoResult
    /\ result' = [op |-> "planMove", dir |-> direction,
                  out |-> planMove(tiles, direction, idRef)]
    /\ UNCHANGED <<progVars, event, accepted, spawned, resets>>

AddRandomTileCall(rnd, value) ==
    /\ result = NoResult
    /\ result' = [op |-> "addRandomTile", out |-> addRandomTile(tiles, idRef, rnd, value)]
    /\ UNCHANGED <<progVars, event, accepted, spawned, resets>>

HasMovesCall ==
    /\ result = NoResult
    /\ result' = [op |-> "hasMoves", out |-> hasMoves(gridFromTiles(tiles))]
    /\ UNCHANGED <<progVars, event, accepted, spawned, resets>>

NextPlan ==
    \/ \E direction \in Directions : PlanMoveCall(direction)
    \/ \E rnd \in RandomDraws, value \in SpawnValues : AddRandomTileCall(rnd, value)
    \/ HasMovesCall

SpecPlan == InitPlan /\ [][NextPlan]_vars
(***************************************************************************)
(* Properties of the pure functions (SpecPlan)                             *)
(***************************************************************************)

RECURSIVE SumValues(_)
SumValues(ts) == IF ts = <<>> THEN 0 ELSE Head(ts).value + SumValues(Tail(ts))

\* The cell values of a line, read from the wall the move goes to, zeros included.
LineCells(grid, direction, line) ==
    [k \in 1 .. SIZE |->
        LET position == IF direction \in {"left", "up"} THEN k - 1 ELSE SIZE - k
        IN  IF direction \in {"left", "right"} THEN grid[line][position]
            ELSE grid[position][line]]

\* The tile values of a line, read from the wall the move goes to.
LineValues(ts, direction, line) ==
    SelectSeq(LineCells(gridFromTiles(ts), direction, line), LAMBDA v : v # 0)

DistinctCells(ts) ==
    \A i, j \in DOMAIN ts : i # j => (ts[i].row # ts[j].row \/ ts[i].col # ts[j].col)

InRange(ts) == \A i \in DOMAIN ts : ts[i].row \in Lines /\ ts[i].col \in Lines

Planned == result.op = "planMove" /\ result.out.moved

\* The input tiles a final tile of the plan stands for.
SourcesOf(plan, f) ==
    {i \in DOMAIN tiles : plan.targets[tiles[i].id] = [row |-> f.row, col |-> f.col]}

\* C1: no chain merge.  In a plan every final tile stands for one input tile (same id,
\* same value) or for two input tiles of equal value v (new id, value 2v), and every
\* input tile goes into exactly one final tile; a line of three equal tiles becomes
\* <<2v, v>>, a line of four equal tiles <<2v, 2v>>, and in a line <<v, v, 2v>> or
\* <<v, v, 2v, w>> the merged 2v does not absorb the 2v that follows it.
C1_NoChainMerge ==
    result.op = "planMove" =>
        LET r == result.out
            d == result.dir
        IN  /\ r.moved =>
                /\ \A j \in DOMAIN r.plan.finalTiles :
                      LET f == r.plan.finalTiles[j]
                          S == SourcesOf(r.plan, f)
                      IN  /\ Cardinality(S) \in {1, 2}
                          /\ Cardinality(S) = 1 =>
                                \A i \in S : f.value = tiles[i].value /\ f.id = tiles[i].id
                          /\ Cardinality(S) = 2 =>
                                /\ \A i \in S : f.value = 2 * tiles[i].value
                                /\ f.id >= idRef
                /\ \A i \in DOMAIN tiles :
                      Cardinality({j \in DOMAIN r.plan.finalTiles :
                                      i \in SourcesOf(r.plan, r.plan.finalTiles[j])}) = 1
            /\ \A line \in Lines :
                  LET before == LineValues(tiles, d, line)
                      after == LineValues(r.plan.finalTiles, d, line)
                      v == before[1]
                  IN  /\ (Len(before) = 3 /\ before = <<v, v, v>>) =>
                            r.moved /\ after = <<2 * v, v>>
                      /\ (Len(before) = 4 /\ before = <<v, v, v, v>>) =>
                            r.moved /\ after = <<2 * v, 2 * v>>
                      /\ (Len(before) = 3 /\ before = <<v, v, 2 * v>>) =>
                            r.moved /\ after = <<2 * v, 2 * v>>
                      /\ (Len(before) = 4 /\ before[2] = v /\ before[3] = 2 * v
                              /\ before[4] # 2 * v) =>
                            r.moved /\ after = <<2 * v, 2 * v, before[4]>>

\* Witness of C1: a move along a line of exactly three equal tiles.
C1_Witness ==
    /\ Planned
    /\ \E line \in Lines :
          LET before == LineValues(tiles, result.dir, line)
          IN  Len(before) = 3 /\ before[1] = before[2] /\ before[2] = before[3]

\* C2 as stated: the sum of the tile values before the move plus plan.score equals the
\* sum of the tile values of plan.finalTiles.
C2_ConservationWithScore ==
    Planned => SumValues(tiles) + result.out.plan.score = SumValues(result.out.plan.finalTiles)

\* C2 amended: the sum of the tile values before the move equals the sum of the tile
\* values of plan.finalTiles; plan.score is not part of the balance.
C2_Conservation ==
    Planned => SumValues(tiles) = SumValues(result.out.plan.finalTiles)

\* Witness of C2: a plan with a merge.
C2_Witness == Planned /\ result.out.plan.score > 0

\* Some tile of the line would change cell: a tile lies behind an empty cell.
LineSlides(ts, direction, line) ==
    LET cells == LineCells(gridFromTiles(ts), direction, line)
    IN  \E k \in 1 .. (SIZE - 1) : cells[k] = 0 /\ cells[k + 1] # 0

\* Some merge would occur in the line: two tiles in a row are equal.
LineMerges(ts, direction, line) ==
    LET values == LineValues(ts, direction, line)
    IN  \E k \in 1 .. (Len(values) - 1) : values[k] = values[k + 1]

\* C3: legality.  On a board of tiles in distinct cells planMove answers moved = TRUE
\* with a plan exactly when some tile would change cell or some merge would occur, and
\* then the plan shows it (a target that differs from its tile's cell, or fewer final
\* tiles than tiles); otherwise it answers moved = FALSE with no plan.
C3_Legality ==
    (result.op = "planMove" /\ DistinctCells(tiles)) =>
        LET r == result.out
            d == result.dir
        IN  /\ r.moved <=> \E line \in Lines : LineSlides(tiles, d, line) \/ LineMerges(tiles, d, line)
            /\ r.moved =>
                  /\ r.plan # NoPlan
                  /\ r.plan.direction = d
                  /\ \/ \E i \in DOMAIN tiles :
                           r.plan.targets[tiles[i].id] # [row |-> tiles[i].row, col |-> tiles[i].col]
                     \/ Len(r.plan.finalTiles) < Len(tiles)
            /\ ~r.moved => r.plan = NoPlan

\* Witness of C3: a legal move that only slides.
C3_Witness == Planned /\ result.out.plan.score = 0 /\ DistinctCells(tiles)

SomeDirectionMoves == \E d \in Directions : planMove(tiles, d, idRef).moved

\* C5 as stated: on every board of tiles in distinct cells hasMoves is true exactly
\* when planMove returns a plan for some direction.
C5_TerminalIffAnyBoard ==
    (result.op = "hasMoves" /\ DistinctCells(tiles)) => (result.out <=> SomeDirectionMoves)

\* C5 amended: on every board of at least one tile, the tiles in distinct cells,
\* hasMoves is true exactly when planMove returns a plan for some direction; on a full
\* board with no equal orthogonal neighbours hasMoves is false and no direction moves.
C5_TerminalIff ==
    (result.op = "hasMoves" /\ DistinctCells(tiles) /\ tiles # <<>>) =>
        (result.out <=> SomeDirectionMoves)

\* Witness of C5: the detector answered false on a full board.
C5_Witness ==
    result.op = "hasMoves" /\ ~result.out /\ Len(tiles) = SIZE * SIZE /\ DistinctCells(tiles)

\* C6: spawn contract.  With an empty cell addRandomTile returns the tiles followed by
\* one new tile, its id the next of the counter and on no other tile, its value 2 or 4,
\* its cell empty before; with no empty cell it returns the tiles and uses no id.
C6_SpawnContract ==
    result.op = "addRandomTile" =>
        LET out == result.out
            grid == gridFromTiles(tiles)
            hasEmpty == \E r \in Lines, c \in Lines : grid[r][c] = 0
        IN  /\ hasEmpty =>
                /\ Len(out.tiles) = Len(tiles) + 1
                /\ SubSeq(out.tiles, 1, Len(tiles)) = tiles
                /\ LET new == out.tiles[Len(out.tiles)]
                   IN  /\ new.id = idRef
                       /\ \A i \in DOMAIN tiles : tiles[i].id # new.id
                       /\ new.value \in {2, 4}
                       /\ new.row \in Lines /\ new.col \in Lines
                       /\ grid[new.row][new.col] = 0
                /\ out.idRef = idRef + 1
            /\ ~hasEmpty => out.tiles = tiles /\ out.idRef = idRef

\* Witness of C6: a spawn on a board that already holds tiles.
C6_Witness ==
    result.op = "addRandomTile" /\ tiles # <<>> /\ Len(result.out.tiles) = Len(tiles) + 1
(***************************************************************************)
(* Properties of the component (Spec, SpecLate)                            *)
(***************************************************************************)

\* handleKey reaches planMove for direction d and planMove finds no legal move.
Rejects(d) == hydrated /\ ~gameOver /\ ~isAnimating /\ ~planMove(tiles, d, idRef).moved

\* No plan is in flight and no callback of a turn is pending.
Idle == moveRef = NoPlan /\ stepTimeout.kind = "none"

\* C4: a rejected direction changes nothing.  A step of handleKey for a direction that
\* planMove rejects leaves the tiles, the score, the id counter, moveRef, isAnimating,
\* the pending timer and gameOver as they were, and makes no spawn.
C4_RejectedKeyChangesNothing ==
    [][\A d \in Directions :
          (Rejects(d) /\ HandleKey(d)) =>
             /\ event' = "keyRejected"
             /\ UNCHANGED <<tiles, score, idRef, moveRef, isAnimating, stepTimeout, gameOver,
                            hydrated, spawned, accepted>>]_vars

\* Witness of C4: a direction key has just been rejected on a board with tiles.
C4_Witness == event = "keyRejected" /\ tiles # <<>> /\ ~isAnimating /\ ~gameOver

\* C7 as stated: whenever no turn is in flight, every accepted direction key has had
\* its addRandomTile call.
C7_SpawnForEveryAcceptedKey == Idle => spawned = accepted

\* C7 amended: an accepted direction key is followed by at most one addRandomTile call,
\* made by the final callback on that plan's final tiles, and by exactly one unless
\* handleRestart or triggerCheat is invoked before that callback has run (each reset
\* accounts for at most one missing call); a rejected key is followed by none.
C7_SpawnOncePerCompletedTurn ==
    [][/\ spawned' <= accepted'
       /\ Idle' => accepted' - spawned' <= resets'
       /\ \A d \in Directions :
             (Rejects(d) /\ HandleKey(d)) =>
                 spawned' = spawned /\ tiles' = tiles /\ stepTimeout' = stepTimeout
       /\ event' = "keyAccepted" =>
             /\ spawned' = spawned /\ tiles' = tiles
             /\ \E d \in Directions : moveRef' = planMove(tiles, d, idRef).plan
       /\ (moveRef # NoPlan /\ moveRef' # NoPlan) => moveRef'.finalTiles = moveRef.finalTiles
       /\ spawned' # spawned =>
             /\ spawned' = spawned + 1
             /\ event' = "final"
             /\ moveRef # NoPlan =>
                   \E rnd \in GameDraws, value \in SpawnValues :
                       tiles' = addRandomTile(moveRef.finalTiles, idRef, rnd, value).tiles]_vars

\* Witness of C7: a turn has just ended with its spawn, no reset having occurred.
C7_Witness == event = "final" /\ spawned = 1 /\ accepted = 1 /\ resets = 0 /\ Idle

\* C8: no overlap.  Whenever no plan is in flight, no two tiles share a cell and every
\* tile has its row and its column in 0 .. SIZE-1.
C8_NoOverlap == moveRef = NoPlan => (DistinctCells(tiles) /\ InRange(tiles))

\* Witness of C8: the board after a completed turn that merged two tiles.
C8_Witness == event = "final" /\ moveRef = NoPlan /\ score > 0 /\ Len(tiles) >= 2

\* C9 as stated: a direction key is accepted only when the final tiles and the spawn of
\* every turn accepted before it have been applied.
C9_AcceptedOnlyAfterCompletion == [][event' = "keyAccepted" => spawned = accepted]_vars

\* C9 amended: from the moment a direction key is accepted until that turn's final
\* tiles and spawn have been applied, or handleRestart or triggerCheat has discarded
\* the turn, no other direction key is accepted: while a plan is in flight handleKey
\* ignores the key, planMove runs only with no plan in flight, on tiles in distinct
\* cells and after the terminal check of that board, and every earlier turn was
\* completed or discarded by a reset.
C9_TurnsSerialized ==
    [][/\ \A d \in Directions :
             (HandleKey(d) /\ (moveRef # NoPlan \/ isAnimating)) =>
                 event' = "keyIgnored" /\ UNCHANGED progVars
       /\ event' \in {"keyAccepted", "keyRejected"} =>
             /\ moveRef = NoPlan
             /\ ~isAnimating
             /\ DistinctCells(tiles)
             /\ canMove(tiles) /\ ~gameOver
       /\ event' = "keyAccepted" => accepted - spawned <= resets]_vars

\* Witness of C9: a direction key pressed while a plan is in flight has been ignored.
C9_Witness == event = "keyIgnored" /\ moveRef # NoPlan /\ ~gameOver

\* C10: game over.  gameOver is set exactly when the detector answers false for the
\* board; while it is set a direction key changes neither the tiles nor the score nor
\* the flag; and it is cleared only by handleRestart or triggerCheat, which put two new
\* tiles on the board and set the score to 0.
C10_GameOver ==
    [][/\ ~canMove(tiles') => gameOver'
       /\ (~gameOver /\ gameOver') => ~canMove(tiles')
       /\ gameOver =>
             \A d \in Directions :
                 HandleKey(d) => (tiles' = tiles /\ score' = score /\ gameOver')
       /\ (gameOver /\ ~gameOver') =>
             /\ event' \in {"restart", "cheat"}
             /\ score' = 0
             /\ Len(tiles') = 2
             /\ \A i \in DOMAIN tiles' : tiles'[i].id >= idRef]_vars

\* Witness of C10: a direction key pressed after game over has been ignored.
C10_Witness == gameOver /\ event = "keyIgnored" /\ ~canMove(tiles)

Ids(ts) == {ts[i].id : i \in DOMAIN ts}

DistinctIds(ts) == \A i, j \in DOMAIN ts : i # j => ts[i].id # ts[j].id

\* C11: tile identity.  In every step the tiles on the board have pairwise distinct
\* ids; the counter never decreases; a tile on the board after the step was on the
\* board before it, or is a successor tile of the plan in flight, or carries an id
\* the counter issues in this step, so that an id that left the board (merged away,
\* or removed by a reset) never comes back; and the plan of an accepted key keeps the
\* id and the value of every unmerged tile and gives every merged tile an id the
\* counter had not issued.
C11_TileIdentity ==
    [][/\ DistinctIds(tiles')
       /\ idRef' >= idRef
       /\ \A i \in DOMAIN tiles' :
             \/ tiles'[i].id \in Ids(tiles)
             \/ tiles'[i].id \in Ids(moveRef.finalTiles)
             \/ tiles'[i].id >= idRef /\ tiles'[i].id < idRef'
       /\ event' = "keyAccepted" =>
             \A j \in DOMAIN moveRef'.finalTiles :
                 LET f == moveRef'.finalTiles[j]
                 IN  \/ \E i \in DOMAIN tiles : tiles[i].id = f.id /\ tiles[i].value = f.value
                     \/ f.id >= idRef /\ f.id < idRef']_vars

RECURSIVE IsPowerOfTwo(_)
IsPowerOfTwo(v) == v = 2 \/ (v > 2 /\ v % 2 = 0 /\ IsPowerOfTwo(v \div 2))

\* C12: tile values.  In every reachable state every tile on the board, and every
\* successor tile of the plan in flight or of the pending final callback, has a value
\* 2^k with k >= 1.
C12_PowersOfTwo ==
    /\ \A i \in DOMAIN tiles : IsPowerOfTwo(tiles[i].value)
    /\ \A j \in DOMAIN moveRef.finalTiles : IsPowerOfTwo(moveRef.finalTiles[j].value)
    /\ \A j \in DOMAIN stepTimeout.active.finalTiles :
          IsPowerOfTwo(stepTimeout.active.finalTiles[j].value)

\* Witness of C12: the two 1024 tiles of the cheat merged into a 2048 tile.
C12_Witness == event = "final" /\ \E i \in DOMAIN tiles : tiles[i].value = 2048

\* The line of a cell for a direction, and its distance from the wall the move goes to.
LineOf(cell, direction) == IF direction \in {"left", "right"} THEN cell.row ELSE cell.col

WallDistance(cell, direction) ==
    IF direction = "left" THEN cell.col
    ELSE IF direction = "right" THEN SIZE - 1 - cell.col
    ELSE IF direction = "up" THEN cell.row
    ELSE SIZE - 1 - cell.row

\* C13: packing toward the wall.  For every board of tiles in distinct cells and every
\* direction with a plan, in each line: every tile's target is in the tile's line; the
\* slot of a tile's group is the number of groups nearer the wall than it, so the groups
\* fill the slots 0, 1, 2, ... counted from the wall, one successor tile per slot; the
\* resulting line has no empty cell between a tile and the wall; and the tiles that
\* survive keep their order along the line.
C13_PackedTowardWall ==
    (Planned /\ DistinctCells(tiles)) =>
        LET plan == result.out.plan
            d == result.dir
            target(i) == plan.targets[tiles[i].id]
        IN  /\ InRange(plan.finalTiles) /\ DistinctCells(plan.finalTiles)
            /\ \A line \in Lines :
                  LET inl == {i \in DOMAIN tiles : LineOf(tiles[i], d) = line}
                      finals == {j \in DOMAIN plan.finalTiles :
                                    LineOf(plan.finalTiles[j], d) = line}
                      cells == LineCells(gridFromTiles(plan.finalTiles), d, line)
                  IN  /\ \A i \in inl : LineOf(target(i), d) = line
                      /\ \A i \in inl :
                            WallDistance(target(i), d) =
                                Cardinality({target(k) : k \in {k \in inl :
                                    WallDistance(tiles[k], d) < WallDistance(tiles[i], d)}}
                                    \ {target(i)})
                      /\ {WallDistance(plan.finalTiles[j], d) : j \in finals} =
                             {WallDistance(target(i), d) : i \in inl}
                      /\ {WallDistance(plan.finalTiles[j], d) : j \in finals} =
                             0 .. (Cardinality(finals) - 1)
                      /\ \A k \in 1 .. (SIZE - 1) : cells[k] = 0 => cells[k + 1] = 0
                      /\ \A i1, i2 \in inl :
                            LET kept(i) == {j \in finals : plan.finalTiles[j].id = tiles[i].id}
                            IN  WallDistance(tiles[i1], d) < WallDistance(tiles[i2], d) =>
                                    \A j1 \in kept(i1), j2 \in kept(i2) :
                                        WallDistance(plan.finalTiles[j1], d) <
                                            WallDistance(plan.finalTiles[j2], d)

\* Witness of C13: a plan in which a line ends with two tiles or more, one of them
\* having slid over an empty cell.
C13_Witness ==
    /\ Planned
    /\ \E line \in Lines :
          /\ LineSlides(tiles, result.dir, line)
          /\ ~LineMerges(tiles, result.dir, line)
          /\ Len(LineValues(tiles, result.dir, line)) >= 2

RECURSIVE MergedSum(_, _)
\* The sum of the values of the merged tiles of a plan: its final tiles with an id
\* issued from base on.
MergedSum(fs, base) ==
    IF fs = <<>> THEN 0
    ELSE (IF Head(fs).id >= base THEN Head(fs).value ELSE 0) + MergedSum(Tail(fs), base)

\* The first row of the board, left to right.
TopRow(ts) == LineCells(gridFromTiles(ts), "left", 0)

AtTargets(ts, plan) ==
    \A i \in DOMAIN ts :
        ts[i].id \in DOMAIN plan.targets =>
            plan.targets[ts[i].id] = [row |-> ts[i].row, col |-> ts[i].col]

\* C15 as stated: once a direction key is accepted the turn runs to completion: the
\* plan in flight is given up only by the final callback, which applies the plan's
\* final tiles, spawns, adds the score and clears the animating flag.
C15_TurnRunsToCompletion ==
    [][(moveRef # NoPlan /\ moveRef' = NoPlan) =>
          /\ event' = "final"
          /\ ~isAnimating'
          /\ score' = score + moveRef.score
          /\ SubSeq(tiles', 1, Len(moveRef.finalTiles)) = moveRef.finalTiles]_vars

\* C15 amended: once a direction key is accepted, and provided the timers keep firing,
\* the turn eventually ends, by its final callback or by handleRestart or triggerCheat;
\* with no reset before its end it ends by the final callback, which finds every tile
\* at its destination, puts the plan's final tiles and one spawned tile on the board,
\* adds the plan's score and clears the animating flag, the plan and the timer; a turn
\* ended by a reset leaves the two tiles of the reset; the final callback is scheduled
\* only when every tile stands at its destination.
C15_TurnCompletesUnlessReset ==
    /\ (moveRef # NoPlan) ~> (moveRef = NoPlan /\ event \in {"final", "restart", "cheat"})
    /\ [][/\ (moveRef # NoPlan /\ moveRef' = NoPlan) =>
              /\ event' \in {"final", "restart", "cheat"}
              /\ resets' = resets => event' = "final"
              /\ ~isAnimating'
              /\ event' = "final" =>
                    /\ AtTargets(tiles, moveRef)
                    /\ SubSeq(tiles', 1, Len(moveRef.finalTiles)) = moveRef.finalTiles
                    /\ Len(tiles') = Len(moveRef.finalTiles) + 1
                    /\ score' = score + moveRef.score
                    /\ spawned' = spawned + 1
                    /\ stepTimeout' = NoTimer
              /\ event' \in {"restart", "cheat"} =>
                    Len(tiles') = 2 /\ \A i \in DOMAIN tiles' : tiles'[i].id >= idRef
          /\ (moveRef # NoPlan /\ stepTimeout'.kind = "final") => AtTargets(tiles', moveRef)]_vars

\* Witness of C15: two turns in a row have run to completion, no reset having occurred.
C15_Witness ==
    event = "final" /\ moveRef = NoPlan /\ ~isAnimating /\ spawned = 2 /\ accepted = 2
        /\ resets = 0

\* The same tiles in another array order, or under other ids.
Reversed(ts) == [i \in 1 .. Len(ts) |-> ts[Len(ts) + 1 - i]]

Rotated(ts) == IF ts = <<>> THEN ts ELSE Tail(ts) \o <<Head(ts)>>

IdsMirrored(ts) == [i \in 1 .. Len(ts) |-> [ts[i] EXCEPT !.id = Len(ts) + 1 - @]]

IdsShifted(ts, n) == [i \in 1 .. Len(ts) |-> [ts[i] EXCEPT !.id = @ + n]]

\* What the claim compares: legality, score delta and the value at each cell.
Outcome(r) ==
    [moved |-> r.moved, score |-> r.plan.score, grid |-> gridFromTiles(r.plan.finalTiles)]

\* C16: deterministic merge precedence.  For every board of tiles in distinct cells
\* and every direction, planMove on the same tiles in reversed or rotated array order,
\* under mirrored ids, under shifted ids, or under both a reversed order and mirrored
\* ids, has the legality, the score delta and the value at each cell of the resulting
\* board that it has on the tiles as given.
C16_OrderAndIdsIrrelevant ==
    (result.op = "planMove" /\ DistinctCells(tiles)) =>
        LET d == result.dir
            same(ts, id) == Outcome(planMove(ts, d, id)) = Outcome(result.out)
        IN  /\ same(Reversed(tiles), idRef)
            /\ same(Rotated(tiles), idRef)
            /\ same(IdsMirrored(tiles), idRef)
            /\ same(IdsShifted(tiles, 5), idRef + 5)
            /\ same(Reversed(IdsMirrored(tiles)), idRef)

\* Witness of C16: a plan with a merge on a board of eight tiles or more, moved down.
C16_Witness ==
    Planned /\ result.dir = "down" /\ result.out.plan.score > 0 /\ Len(tiles) >= 8

\* C17: planMove never changes the total tile value.  For every board and direction
\* with a plan, the values of the final tiles add up to the values of the tiles; every
\* merge issues one id and replaces two tiles of value v by one tile of value 2v; and
\* the number of final tiles is the number of tiles minus the number of merges.
C17_ValueAndCount ==
    Planned =>
        LET plan == result.out.plan
            merges == {j \in DOMAIN plan.finalTiles : plan.finalTiles[j].id >= idRef}
        IN  /\ SumValues(plan.finalTiles) = SumValues(tiles)
            /\ Cardinality(merges) = result.out.idRef - idRef
            /\ Len(plan.finalTiles) = Len(tiles) - Cardinality(merges)
            /\ \A j \in merges :
                  LET S == SourcesOf(plan, plan.finalTiles[j])
                  IN  /\ Cardinality(S) = 2
                      /\ \A i \in S : 2 * tiles[i].value = plan.finalTiles[j].value

\* Witness of C17: a plan with two merges or more.
C17_Witness == Planned /\ result.out.idRef >= idRef + 2

\* C18: a reset cancels the turn in flight.  handleRestart and triggerCheat leave two
\* new tiles, the score 0 and no plan in flight; a timer callback that fires when no
\* plan is in flight, its plan having been given up by a reset, changes neither the
\* tiles nor the score; and the score leaves 0 only by the final callback of a plan
\* that is in flight.
C18_ResetCancelsTurn ==
    [][/\ event' \in {"restart", "cheat"} =>
             /\ score' = 0 /\ moveRef' = NoPlan /\ ~isAnimating'
             /\ Len(tiles') = 2 /\ \A i \in DOMAIN tiles' : tiles'[i].id >= idRef
       /\ (moveRef = NoPlan /\ event' \in {"runStep", "runStepStale", "final"}) =>
             tiles' = tiles /\ score' = score
       /\ (score = 0 /\ score' # 0) => (event' = "final" /\ moveRef # NoPlan)]_vars

\* C19: game over is never entered in the middle of a turn.  Every board shown while a
\* plan is in flight, the tiles advanced cell by cell and possibly overlapping, has a
\* move according to hasMoves; runStep leaves gameOver as it was; and gameOver becomes
\* true only in the final callback, on a board of tiles in distinct cells that ends
\* with the spawned tile, no plan being in flight.
C19_NoGameOverMidTurn ==
    [][/\ moveRef' # NoPlan => (canMove(tiles') /\ ~gameOver')
       /\ event' = "runStep" => (canMove(tiles') /\ gameOver' = gameOver)
       /\ (~gameOver /\ gameOver') =>
             /\ event' = "final"
             /\ moveRef' = NoPlan
             /\ DistinctCells(tiles')
             /\ Len(tiles') = Len(stepTimeout.active.finalTiles) + 1
             /\ tiles'[Len(tiles')].id = idRef]_vars

\* Witness of C19: a full board in the middle of its turn, two tiles sharing a cell.
C19_Witness ==
    event = "runStep" /\ moveRef # NoPlan /\ Len(tiles) = SIZE * SIZE /\ ~DistinctCells(tiles)

\* C20: the spawn after an accepted move always succeeds.  For every board of tiles in
\* distinct cells and every direction with a plan, the plan's final tiles leave a cell
\* empty, and addRandomTile on them, as the final callback calls it, returns them
\* followed by exactly one new tile, whatever the draws.
C20_SpawnAfterMoveSucceeds ==
    (Planned /\ DistinctCells(tiles)) =>
        LET final == result.out.plan.finalTiles
        IN  /\ Len(getEmptyCells(gridFromTiles(final))) > 0
            /\ Len(final) < SIZE * SIZE
            /\ \A rnd \in RandomDraws, value \in SpawnValues :
                  LET withTile == addRandomTile(final, result.out.idRef, rnd, value)
                  IN  /\ Len(withTile.tiles) = Len(final) + 1
                      /\ SubSeq(withTile.tiles, 1, Len(final)) = final
                      /\ withTile.idRef = result.out.idRef + 1

\* Witness of C20: a legal move on a full board.
C20_Witness == Planned /\ Len(tiles) = SIZE * SIZE /\ DistinctCells(tiles)
====
